---- MODULE Spec2Model ----
(***************************************************************************)
(* Model of fetch_genesis_data.py: credential setup, two table fetches,    *)
(* merge/sort/save, and the exit code of main.                             *)
(*                                                                         *)
(* A table (pandas DataFrame) is a record [columns, rows]; a row is a      *)
(* record of its cells.  The field "src" of a row is a ghost cell: the     *)
(* code of the Genesis table the provider delivered it for.  It is never   *)
(* read by the modelled code, only by the properties.                      *)
(***************************************************************************)
EXTENDS Integers, Sequences, FiniteSets, TLC

VARIABLES
    pc,                  \* position of main
    env,                 \* os.environ: GENESIS_USERNAME / GENESIS_PASSWORD
    disk,                \* the stored configuration (config.ini)
    disk0,               \* history: the stored configuration when main started
    cfg,                 \* the configuration object after setup_genesis_credentials
    credOk,              \* return value of setup_genesis_credentials
    credExc,             \* history: an exception was raised inside setup_genesis_credentials
    data_behandlungsort, \* main's local: result of the first fetch
    data_wohnort,        \* main's local: result of the second fetch
    fetchExc,            \* history: the table codes whose fetch raised inside fetch_table_data
    file,                \* GAC_Daten_Roh.csv as written during this run
    success,             \* main's local: return value of combine_and_save_data
    saveExc,             \* history: an exception was raised inside combine_and_save_data
    exitCode,            \* return value of main
    calls                \* history: the functions main has called, in order

vars == <<pc, env, disk, disk0, cfg, credOk, credExc, data_behandlungsort,
          data_wohnort, fetchExc, file, success, saveExc, exitCode, calls>>

\* ------------------------------------------------------------------ bounds
MaxRows == 2
Years == {2005, 2006}

\* ------------------------------------------------------------------ values
\* Python's None
Null == [null |-> TRUE]
\* the missing-value marker pd.concat fills in for a column a table lacks
NaN == -1
\* main has not returned yet
NoExit == -2

TABLE_BEHANDLUNGSORT == "23131-0011"
TABLE_WOHNORT == "23131-0012"
TAG_COLUMN == "Wohnort/Behandlungsort"
TAG_BEHANDLUNGSORT == "nach Behandlungsort"
TAG_WOHNORT == "nach Wohnort"

\* a configuration option that is not set at all: cfg.get raises on it
NoOption == "<no option>"

SeqsUpTo(S, n) == UNION {[1..k -> S] : k \in 0..n}

\* The tables the provider can deliver for a table code, with or without a
\* year column.  The cell Wert of a row is its position in the delivered
\* table, so the rows of one table are distinct observations.
RowsOf(code, years) ==
    [i \in 1..Len(years) |-> [Jahr |-> years[i], Wert |-> i, src |-> code]]
RowsWithoutJahr(code, n) ==
    [i \in 1..n |-> [Wert |-> i, src |-> code]]
Tables(code) ==
    {[columns |-> {"Jahr", "Wert"}, rows |-> RowsOf(code, y)] : y \in SeqsUpTo(Years, MaxRows)}
    \cup
    {[columns |-> {"Wert"}, rows |-> RowsWithoutJahr(code, n)] : n \in 0..MaxRows}

NoFile == [written |-> FALSE, columns |-> {}, rows |-> <<>>]

\* ------------------------------------------------- setup_genesis_credentials
\* Python truthiness of a string or None ("" stands for both)
Truthy(s) == s # "" /\ s # NoOption

\* `if username and password:` with `or` in place of `and`
BothSuppliedEither(username, password) == Truthy(username) \/ Truthy(password)

\* `if username and password:`
BothSupplied(username, password) == Truthy(username) /\ Truthy(password)

CredFaults == {"none", "load_config", "open"}

\* The whole function.  stored is the configuration on disk; fault names the
\* library call that raises, if any.  The result holds the return value, the
\* configuration object and the stored configuration afterwards; exc records
\* that the except clause ran, raised that an exception left the function.
setup_genesis_credentials(stored, username, password, fault) ==
    IF fault = "load_config"
    THEN [ret |-> FALSE, raised |-> FALSE, exc |-> TRUE, cfg |-> stored, disk |-> stored]
    ELSE LET supplied == BothSupplied(username, password)
             c == IF supplied
                  THEN [username |-> username, password |-> password]
                  ELSE stored
         IN  IF supplied /\ fault = "open"
             THEN [ret |-> FALSE, raised |-> FALSE, exc |-> TRUE, cfg |-> c, disk |-> stored]
             ELSE LET d == IF supplied THEN c ELSE stored
                  IN  IF c.username = NoOption
                      THEN [ret |-> FALSE, raised |-> FALSE, exc |-> TRUE, cfg |-> c, disk |-> d]
                      ELSE IF ~Truthy(c.username)
                      THEN [ret |-> FALSE, raised |-> FALSE, exc |-> FALSE, cfg |-> c, disk |-> d]
                      ELSE [ret |-> TRUE, raised |-> FALSE, exc |-> FALSE, cfg |-> c, disk |-> d]

\* ---------------------------------------------------------- fetch_table_data
\* What Table(name=...).get_data(...) does: raise, leave table.data None, or
\* deliver a table.
Responses(code) ==
    {[raises |-> TRUE, data |-> Null], [raises |-> FALSE, data |-> Null]}
    \cup {[raises |-> FALSE, data |-> t] : t \in Tables(code)}

\* fetch_table_data without its try/except
fetch_table_data_uncaught(response) ==
    [ret |-> response.data, raised |-> response.raises, exc |-> response.raises]

fetch_table_data(response) ==
    IF response.raises
    THEN [ret |-> Null, raised |-> FALSE, exc |-> TRUE]
    ELSE IF response.data # Null
         THEN [ret |-> response.data, raised |-> FALSE, exc |-> FALSE]
         ELSE [ret |-> Null, raised |-> FALSE, exc |-> FALSE]

\* ----------------------------------------------------- combine_and_save_data
\* both tables get the tag of the first
TagOfFirstOnly(code) == TAG_BEHANDLUNGSORT

\* the provenance tag the function gives the rows of each argument
TagOf(code) == IF code = TABLE_BEHANDLUNGSORT THEN TAG_BEHANDLUNGSORT ELSE TAG_WOHNORT

\* data = data.copy(); data['Wohnort/Behandlungsort'] = tag
Tagged(t, tag) ==
    [columns |-> t.columns \cup {TAG_COLUMN},
     rows |-> [i \in 1..Len(t.rows) |->
                 [f \in DOMAIN t.rows[i] \cup {TAG_COLUMN} |->
                     IF f = TAG_COLUMN THEN tag ELSE t.rows[i][f]]]]

\* a row reindexed to the columns cols: NaN in the columns it lacks
Reindexed(r, cols) ==
    [f \in DOMAIN r \cup cols |-> IF f \in DOMAIN r THEN r[f] ELSE NaN]

\* a concatenation that keeps only the first table's rows
concat_first_only(a, b) ==
    [columns |-> a.columns \cup b.columns,
     rows |-> [i \in 1..Len(a.rows) |-> Reindexed(a.rows[i], a.columns \cup b.columns)]]

\* pd.concat([a, b], ignore_index=True)
concat(a, b) ==
    LET cols == a.columns \cup b.columns
        all == a.rows \o b.rows
    IN  [columns |-> cols,
         rows |-> [i \in 1..Len(all) |-> Reindexed(all[i], cols)]]

\* the order of sort_values (ascending, na_position='last'): x sorts strictly before y
Before(x, y) == x # NaN /\ (y = NaN \/ x < y)

RECURSIVE Insert(_, _)
Insert(s, r) ==
    IF s = <<>> THEN <<r>>
    ELSE IF Before(r.Jahr, Head(s).Jahr) THEN <<r>> \o s
    ELSE <<Head(s)>> \o Insert(Tail(s), r)

RECURSIVE SortRows(_)
SortRows(s) ==
    IF s = <<>> THEN <<>>
    ELSE Insert(SortRows(SubSeq(s, 1, Len(s) - 1)), s[Len(s)])

RECURSIVE DropDuplicateYears(_)
DropDuplicateYears(s) ==
    IF Len(s) <= 1 THEN s
    ELSE LET front == DropDuplicateYears(SubSeq(s, 1, Len(s) - 1))
         IN  IF \E i \in 1..Len(front) : front[i].Jahr = s[Len(s)].Jahr
             THEN front
             ELSE Append(front, s[Len(s)])

\* a sort that also drops rows repeating a year
sort_values_dedup(t) == [columns |-> t.columns, rows |-> SortRows(DropDuplicateYears(t.rows))]

\* no sort at all
sort_values_noop(t) == t

\* combined_data.sort_values('Jahr')
sort_values(t) == [columns |-> t.columns, rows |-> SortRows(t.rows)]

SaveFaults == {"none", "copy", "concat", "sort_values", "to_csv", "summary"}

\* The whole function.  b and w are its two arguments, old the output file
\* before the call, fault the library call that raises, if any.
combine_and_save_data(b, w, old, fault) ==
    LET Failed(f) == [ret |-> FALSE, raised |-> FALSE, exc |-> TRUE, file |-> f]
    IN
    IF fault = "copy" /\ (b # Null \/ w # Null) THEN Failed(old)
    ELSE IF b = Null /\ w = Null
    THEN [ret |-> FALSE, raised |-> FALSE, exc |-> FALSE, file |-> old]
    ELSE IF fault = "concat" /\ b # Null /\ w # Null THEN Failed(old)
    ELSE
    LET combined_data ==
            IF b # Null /\ w # Null
            THEN concat(Tagged(b, TagOf(TABLE_BEHANDLUNGSORT)), Tagged(w, TagOf(TABLE_WOHNORT)))
            ELSE IF b # Null THEN Tagged(b, TagOf(TABLE_BEHANDLUNGSORT))
            ELSE Tagged(w, TagOf(TABLE_WOHNORT))
        hasJahr == "Jahr" \in combined_data.columns
    IN
    IF fault = "sort_values" /\ hasJahr THEN Failed(old)
    ELSE
    LET sorted == IF hasJahr THEN sort_values(combined_data) ELSE combined_data
        csv == [written |-> TRUE, columns |-> sorted.columns, rows |-> sorted.rows]
    IN
    IF fault = "to_csv" THEN Failed(old)
    ELSE IF fault = "summary" /\ hasJahr THEN Failed(csv)
    ELSE [ret |-> TRUE, raised |-> FALSE, exc |-> FALSE, file |-> csv]

\* ----------------------------------------------------------------------- main
\* main gives up when credential setup fails
AfterSetupAbort(ok) == IF ok THEN "fetch1" ELSE "done"

\* where main goes after setup_genesis_credentials returned ok
AfterSetup(ok) == "fetch1"

\* `and` in place of `or`
HaveDataBoth(b, w) == b # Null /\ w # Null

\* merge/save whatever was fetched
HaveDataAlways(b, w) == TRUE

\* `if data_behandlungsort is not None or data_wohnort is not None:`
HaveData(b, w) == b # Null \/ w # Null

Configs ==
    {[username |-> NoOption, password |-> NoOption],
     [username |-> "", password |-> ""],
     [username |-> "old@example.org", password |-> "old"]}

Init ==
    /\ pc = "setup"
    /\ env \in [username : {"", "new@example.org"}, password : {"", "new"}]
    /\ disk \in Configs
    /\ disk0 = disk
    /\ cfg = disk
    /\ credOk = FALSE
    /\ credExc = FALSE
    /\ data_behandlungsort = Null
    /\ data_wohnort = Null
    /\ fetchExc = {}
    /\ file = NoFile
    /\ success = FALSE
    /\ saveExc = FALSE
    /\ exitCode = NoExit
    /\ calls = <<>>

SetupCredentials ==
    /\ pc = "setup"
    /\ \E fault \in CredFaults :
         LET r == setup_genesis_credentials(disk, env.username, env.password, fault)
         IN  /\ pc' = IF r.raised THEN "crashed" ELSE AfterSetup(r.ret)
             /\ credOk' = r.ret
             /\ credExc' = r.exc
             /\ cfg' = r.cfg
             /\ disk' = r.disk
    /\ calls' = Append(calls, "setup_genesis_credentials")
    /\ UNCHANGED <<env, disk0, data_behandlungsort, data_wohnort, fetchExc, file,
                   success, saveExc, exitCode>>

FetchBehandlungsort ==
    /\ pc = "fetch1"
    /\ \E response \in Responses(TABLE_BEHANDLUNGSORT) :
         LET r == fetch_table_data(response)
         IN  /\ pc' = IF r.raised THEN "crashed" ELSE "fetch2"
             /\ data_behandlungsort' = r.ret
             /\ fetchExc' = IF r.exc THEN fetchExc \cup {TABLE_BEHANDLUNGSORT} ELSE fetchExc
    /\ calls' = Append(calls, "fetch_table_data " \o TABLE_BEHANDLUNGSORT)
    /\ UNCHANGED <<env, disk, disk0, cfg, credOk, credExc, data_wohnort, file,
                   success, saveExc, exitCode>>

FetchWohnort ==
    /\ pc = "fetch2"
    /\ \E response \in Responses(TABLE_WOHNORT) :
         LET r == fetch_table_data(response)
         IN  /\ pc' = IF r.raised THEN "crashed" ELSE "check"
             /\ data_wohnort' = r.ret
             /\ fetchExc' = IF r.exc THEN fetchExc \cup {TABLE_WOHNORT} ELSE fetchExc
    /\ calls' = Append(calls, "fetch_table_data " \o TABLE_WOHNORT)
    /\ UNCHANGED <<env, disk, disk0, cfg, credOk, credExc, data_behandlungsort, file,
                   success, saveExc, exitCode>>

CombineAndSave ==
    /\ pc = "check"
    /\ HaveData(data_behandlungsort, data_wohnort)
    /\ \E fault \in SaveFaults :
         LET r == combine_and_save_data(data_behandlungsort, data_wohnort, file, fault)
         IN  /\ pc' = IF r.raised THEN "crashed" ELSE "saved"
             /\ success' = r.ret
             /\ saveExc' = r.exc
             /\ file' = r.file
    /\ calls' = Append(calls, "combine_and_save_data")
    /\ UNCHANGED <<env, disk, disk0, cfg, credOk, credExc, data_behandlungsort,
                   data_wohnort, fetchExc, exitCode>>

ReturnSuccess ==
    /\ pc = "saved"
    /\ success
    /\ exitCode' = 0
    /\ pc' = "done"
    /\ UNCHANGED <<env, disk, disk0, cfg, credOk, credExc, data_behandlungsort,
                   data_wohnort, fetchExc, file, success, saveExc, calls>>

ReturnSaveFailed ==
    /\ pc = "saved"
    /\ ~success
    /\ exitCode' = 1
    /\ pc' = "done"
    /\ UNCHANGED <<env, disk, disk0, cfg, credOk, credExc, data_behandlungsort,
                   data_wohnort, fetchExc, file, success, saveExc, calls>>

ReturnFetchFailed ==
    /\ pc = "check"
    /\ ~HaveData(data_behandlungsort, data_wohnort)
    /\ exitCode' = 1
    /\ pc' = "done"
    /\ UNCHANGED <<env, disk, disk0, cfg, credOk, credExc, data_behandlungsort,
                   data_wohnort, fetchExc, file, success, saveExc, calls>>

Next ==
    \/ SetupCredentials
    \/ FetchBehandlungsort
    \/ FetchWohnort
    \/ CombineAndSave
    \/ ReturnSuccess
    \/ ReturnSaveFailed
    \/ ReturnFetchFailed

Spec == Init /\ [][Next]_vars

\* ------------------------------------------------------------- properties
\* what identifies a delivered row: the table it came from and its position there
Key(r) == <<r.src, r.Wert>>
Keys(rows) == [i \in 1..Len(rows) |-> Key(rows[i])]
Occurrences(s, x) == Cardinality({i \in 1..Len(s) : s[i] = x})
SameRows(s, t) ==
    /\ Len(s) = Len(t)
    /\ \A i \in 1..Len(s) : Occurrences(s, s[i]) = Occurrences(t, s[i])
RowsOrNone(t) == IF t = Null THEN <<>> ELSE t.rows
\* the key sequence of the first table's rows followed by the second's
ConcatenationOrder == Keys(RowsOrNone(data_behandlungsort)) \o Keys(RowsOrNone(data_wohnort))
SaveCalled == \E i \in 1..Len(calls) : calls[i] = "combine_and_save_data"
ProvenanceOf(code) ==
    IF code = TABLE_BEHANDLUNGSORT THEN "nach Behandlungsort" ELSE "nach Wohnort"
\* a written row is its delivered row plus the tag cell (and NaN in columns it lacked)
ExtendsDelivered(r, t) ==
    \E i \in 1..Len(t.rows) :
        /\ Key(t.rows[i]) = Key(r)
        /\ \A f \in DOMAIN t.rows[i] : r[f] = t.rows[i][f]
        /\ DOMAIN r = DOMAIN t.rows[i] \cup {TAG_COLUMN}

\* C1: when both arguments of combine_and_save_data are tables, the written
\* dataset has as many rows as the two tables together.
C1_RowCountIsSum ==
    (file.written /\ data_behandlungsort # Null /\ data_wohnort # Null)
        => Len(file.rows) = Len(data_behandlungsort.rows) + Len(data_wohnort.rows)

C1_Witness ==
    /\ file.written
    /\ data_behandlungsort # Null /\ data_wohnort # Null
    /\ Len(data_behandlungsort.rows) = MaxRows /\ Len(data_wohnort.rows) > 0
    /\ "Jahr" \in file.columns
    /\ Keys(file.rows) # ConcatenationOrder

\* C2: every written row carries the provenance tag of the table it was
\* delivered for, also where the sort has moved rows of the second table in
\* front of rows of the first.
C2_EveryRowTagged ==
    file.written =>
        \A i \in 1..Len(file.rows) :
            /\ TAG_COLUMN \in DOMAIN file.rows[i]
            /\ file.rows[i][TAG_COLUMN] = ProvenanceOf(file.rows[i].src)

C2_Witness ==
    /\ file.written
    /\ \E i, j \in 1..Len(file.rows) :
          /\ i < j
          /\ file.rows[i].src = TABLE_WOHNORT
          /\ file.rows[j].src = TABLE_BEHANDLUNGSORT

\* C3: when both fetches returned None, combine_and_save_data is not called,
\* no file is written, and main returns 1.
C3_BothNullExitsOne ==
    (pc \in {"check", "saved", "done"} /\ data_behandlungsort = Null /\ data_wohnort = Null)
        => /\ ~SaveCalled
           /\ ~file.written
           /\ pc # "saved"
           /\ (pc = "done" => exitCode = 1)

C3_Witness ==
    /\ pc = "done"
    /\ data_behandlungsort = Null /\ data_wohnort = Null
    /\ exitCode = 1
    /\ fetchExc = {TABLE_BEHANDLUNGSORT}

\* C4: when exactly one fetch returned a table, the written rows are exactly
\* the rows of that table, each with that table's tag added.
C4_OnlyFetchedTableWritten ==
    (file.written /\ (data_behandlungsort = Null) # (data_wohnort = Null))
        => LET t == IF data_behandlungsort # Null THEN data_behandlungsort ELSE data_wohnort
               code == IF data_behandlungsort # Null THEN TABLE_BEHANDLUNGSORT ELSE TABLE_WOHNORT
           IN  /\ SameRows(Keys(file.rows), Keys(t.rows))
               /\ file.columns = t.columns \cup {TAG_COLUMN}
               /\ \A i \in 1..Len(file.rows) :
                     /\ ExtendsDelivered(file.rows[i], t)
                     /\ file.rows[i][TAG_COLUMN] = ProvenanceOf(code)

C4_Witness ==
    /\ file.written
    /\ data_behandlungsort = Null /\ data_wohnort # Null
    /\ Len(file.rows) = MaxRows
    /\ Keys(file.rows) # Keys(data_wohnort.rows)

\* C5 as stated: main returns 1 whenever at least one fetch returned None or
\* combine_and_save_data returned False, and 0 otherwise.
C5_ExitOneOnAnyFetchFailure ==
    pc = "done" =>
        exitCode = IF \/ data_behandlungsort = Null
                      \/ data_wohnort = Null
                      \/ (SaveCalled /\ ~success)
                   THEN 1 ELSE 0

\* C5 amended: main returns 1 exactly when both fetches returned None or
\* combine_and_save_data returned False, and 0 otherwise (also when one of
\* the two fetches returned None and the other table was saved).
C5_ExitCodeMapsOutcome ==
    pc = "done" =>
        exitCode = IF \/ (data_behandlungsort = Null /\ data_wohnort = Null)
                      \/ (SaveCalled /\ ~success)
                   THEN 1 ELSE 0

C5_Witness ==
    /\ pc = "done"
    /\ data_behandlungsort = Null /\ data_wohnort # Null
    /\ SaveCalled /\ success
    /\ exitCode = 0

\* numeric <= on year cells: a comparison with NaN is false
Leq(x, y) == x # NaN /\ y # NaN /\ x <= y

WrittenInConcatenationOrder == Keys(file.rows) = ConcatenationOrder

\* C6 as stated: with a 'Jahr' column the written rows are in non-decreasing
\* order of it, without one they are in concatenation order.
C6_JahrNonDecreasing ==
    file.written =>
        IF "Jahr" \in file.columns
        THEN \A i, j \in 1..Len(file.rows) :
                i < j => Leq(file.rows[i].Jahr, file.rows[j].Jahr)
        ELSE WrittenInConcatenationOrder

\* C6 amended: with a 'Jahr' column the written rows that have a year are in
\* non-decreasing order of it and every row without one (NaN, the rows of a
\* table that lacks the column) comes after them; without the column the
\* rows are in concatenation order.
C6_JahrSortedMissingLast ==
    file.written =>
        IF "Jahr" \in file.columns
        THEN \A i, j \in 1..Len(file.rows) :
                i < j => \/ file.rows[j].Jahr = NaN
                         \/ Leq(file.rows[i].Jahr, file.rows[j].Jahr)
        ELSE WrittenInConcatenationOrder

C6_Witness ==
    /\ file.written
    /\ "Jahr" \in file.columns
    /\ ~WrittenInConcatenationOrder
    /\ \E i, j \in 1..Len(file.rows) :
          /\ i < j
          /\ file.rows[i].Jahr # NaN
          /\ file.rows[j].Jahr = NaN
    /\ \E i, j \in 1..Len(file.rows) :
          file.rows[i].Jahr # NaN /\ file.rows[j].Jahr # NaN
          /\ file.rows[i].Jahr < file.rows[j].Jahr

MainOrder ==
    <<"setup_genesis_credentials",
      "fetch_table_data 23131-0011",
      "fetch_table_data 23131-0012",
      "combine_and_save_data">>

\* C7: main calls credential setup, the fetch of 23131-0011, the fetch of
\* 23131-0012 and merge/save in this order; when it returns both fetches have
\* been attempted, and merge/save has been called exactly if a fetch returned
\* a table.
C7_MainStepOrder ==
    /\ Len(calls) <= Len(MainOrder)
    /\ calls = SubSeq(MainOrder, 1, Len(calls))
    /\ (pc = "fetch1" <=> Len(calls) = 1)
    /\ (pc = "fetch2" <=> Len(calls) = 2)
    /\ (pc = "done" => Len(calls) >= 3)
    /\ (pc \in {"saved", "done"} =>
           (SaveCalled <=> (data_behandlungsort # Null \/ data_wohnort # Null)))

C7_Witness ==
    /\ pc = "done"
    /\ ~credOk
    /\ data_behandlungsort = Null /\ data_wohnort # Null
    /\ calls = MainOrder

\* C8: an exception inside one of the three functions becomes its failure
\* value (False, None, False) and never reaches main, which returns 0 or 1.
C8_NoExceptionEscapes ==
    /\ pc # "crashed"
    /\ (credExc => ~credOk)
    /\ (TABLE_BEHANDLUNGSORT \in fetchExc => data_behandlungsort = Null)
    /\ (TABLE_WOHNORT \in fetchExc => data_wohnort = Null)
    /\ (saveExc => ~success)
    /\ (pc = "done" => exitCode \in {0, 1})
    /\ (pc # "done" => exitCode = NoExit)

C8_Witness ==
    /\ pc = "done"
    /\ credExc
    /\ fetchExc = {TABLE_WOHNORT}
    /\ saveExc
    /\ exitCode = 1

EnvSupplied == Truthy(env.username) /\ Truthy(env.password)

\* C9: after setup_genesis_credentials, the return value is True exactly when
\* no exception occurred and the configuration holds a non-empty username;
\* with both credentials supplied and no exception the configuration and the
\* stored file hold them; with one or none supplied the configuration and
\* the stored file are as they were.
C9_CredentialSetup ==
    pc # "setup" =>
        /\ credOk <=> (~credExc /\ Truthy(cfg.username))
        /\ (EnvSupplied /\ ~credExc) =>
              /\ cfg = [username |-> env.username, password |-> env.password]
              /\ disk = cfg
        /\ ~EnvSupplied => (cfg = disk0 /\ disk = disk0)

C9_Witness ==
    /\ pc # "setup"
    /\ credOk
    /\ EnvSupplied
    /\ disk # disk0
    /\ disk.username = env.username

\* C10: main returns 0 if and only if the output file was written during the
\* run, and whenever combine_and_save_data returned False no file was written.
C10_ExitCodeFaithful ==
    /\ (pc = "done" => (exitCode = 0 <=> file.written))
    /\ ((SaveCalled /\ ~success) => ~file.written)

====
